---- MODULE Spec2Model ----
(***************************************************************************)
(* A model of http_server.py: a single-threaded HTTP/1.1 server that       *)
(* serves files and directory listings from ./webroot.                     *)
(*                                                                         *)
(* Bytes are sequences of integers 0..255, text is a sequence of Unicode   *)
(* code points.  Python exceptions raised by a function are modelled as a  *)
(* record [exc |-> <name>]; a normal return as [exc |-> "none", ...].      *)
(***************************************************************************)
EXTENDS Integers, Sequences, FiniteSets, TLC

(***************************************************************************)
(* Text literals                                                           *)
(***************************************************************************)

\* The printable ASCII characters, code points 32..126 in order (the grave
\* accent, 96, is spelled out).
Ascii ==
  << " ", "!", "\"", "#", "$", "%", "&", "'", "(", ")", "*", "+", ",", "-",
     ".", "/", "0", "1", "2", "3", "4", "5", "6", "7", "8", "9", ":", ";",
     "<", "=", ">", "?", "@", "A", "B", "C", "D", "E", "F", "G", "H", "I",
     "J", "K", "L", "M", "N", "O", "P", "Q", "R", "S", "T", "U", "V", "W",
     "X", "Y", "Z", "[", "\\", "]", "^", "_", "grave", "a", "b", "c", "d", "e",
     "f", "g", "h", "i", "j", "k", "l", "m", "n", "o", "p", "q", "r", "s",
     "t", "u", "v", "w", "x", "y", "z", "{", "|", "}", "~" >>

\* The code point of a character written as a one-character string.
Ord(c) ==
  IF c = "\r" THEN 13
  ELSE IF c = "\n" THEN 10
  ELSE 31 + (CHOOSE i \in 1..Len(Ascii) : Ascii[i] = c)

\* A str (or an ASCII bytes) literal, written as a tuple of characters.
Str(t) == [i \in 1..Len(t) |-> Ord(t[i])]

CRLF == Str(<<"\r", "\n">>)

\* The test of line 141 for an empty line with bare "\n" line breaks.
TerminatorLF == Str(<<"\n", "\n">>)

\* The header terminator '\r\n\r\n' (line 141).
Terminator == CRLF \o CRLF

\* Python's `sub in s` on str and bytes.
Contains(s, sub) ==
  \E i \in 1..(Len(s) - Len(sub) + 1) : SubSeq(s, i, i + Len(sub) - 1) = sub

StartsWith(s, prefix) ==
  Len(s) >= Len(prefix) /\ SubSeq(s, 1, Len(prefix)) = prefix

\* sep.join(parts)
RECURSIVE Join(_, _)
Join(sep, parts) ==
  IF parts = <<>> THEN <<>>
  ELSE IF Len(parts) = 1 THEN parts[1]
  ELSE parts[1] \o sep \o Join(sep, Tail(parts))

(***************************************************************************)
(* UTF-8                                                                   *)
(***************************************************************************)

\* The value bytes.decode('utf8') stands for when it raises
\* UnicodeDecodeError.
DecodeError == << -1 >>

IsCont(b) == b \in 128..191

Cons(c, rest) == IF rest = DecodeError THEN DecodeError ELSE <<c>> \o rest

\* data.decode('utf8') from byte i on: strict decoding, so a truncated or
\* ill-formed sequence raises.
RECURSIVE Utf8DecodeFrom(_, _)
Utf8DecodeFrom(b, i) ==
  IF i > Len(b) THEN <<>>
  ELSE LET c == b[i]
           n == Len(b)
       IN  IF c < 128 THEN Cons(c, Utf8DecodeFrom(b, i + 1))
           ELSE IF /\ c \in 194..223
                   /\ i + 1 <= n
                   /\ IsCont(b[i + 1])
             THEN Cons((c - 192) * 64 + (b[i + 1] - 128),
                       Utf8DecodeFrom(b, i + 2))
           ELSE IF /\ c \in 224..239
                   /\ i + 2 <= n
                   /\ IsCont(b[i + 1])
                   /\ IsCont(b[i + 2])
                   /\ (c = 224 => b[i + 1] >= 160)
                   /\ (c = 237 => b[i + 1] <= 159)
             THEN Cons((c - 224) * 4096 + (b[i + 1] - 128) * 64
                         + (b[i + 2] - 128),
                       Utf8DecodeFrom(b, i + 3))
           ELSE IF /\ c \in 240..244
                   /\ i + 3 <= n
                   /\ IsCont(b[i + 1])
                   /\ IsCont(b[i + 2])
                   /\ IsCont(b[i + 3])
                   /\ (c = 240 => b[i + 1] >= 144)
                   /\ (c = 244 => b[i + 1] <= 143)
             THEN Cons((c - 240) * 262144 + (b[i + 1] - 128) * 4096
                         + (b[i + 2] - 128) * 64 + (b[i + 3] - 128),
                       Utf8DecodeFrom(b, i + 4))
           ELSE DecodeError

Utf8Decode(data) == Utf8DecodeFrom(data, 1)

\* The UTF-8 encoding of one code point (surrogates never occur: the text
\* the server encodes comes from file names and the MIME table).
Utf8EncodeChar(c) ==
  IF c < 128 THEN <<c>>
  ELSE IF c < 2048 THEN <<192 + (c \div 64), 128 + (c % 64)>>
  ELSE IF c < 65536
    THEN <<224 + (c \div 4096), 128 + ((c \div 64) % 64), 128 + (c % 64)>>
  ELSE <<240 + (c \div 262144), 128 + ((c \div 4096) % 64),
         128 + ((c \div 64) % 64), 128 + (c % 64)>>

\* str.encode()
RECURSIVE Utf8Encode(_)
Utf8Encode(s) ==
  IF s = <<>> THEN <<>> ELSE Utf8EncodeChar(Head(s)) \o Utf8Encode(Tail(s))

(***************************************************************************)
(* Response Builder                                                        *)
(***************************************************************************)

\* response_ok as its docstring shows it (lines 13-19): a line break
\* after the body.
response_ok_trailing(body, mimetype) ==
  Join(CRLF, << Str(<<"H","T","T","P","/","1",".","1"," ","2","0","0"," ",
                      "O","K">>),
                Str(<<"C","o","n","t","e","n","t","-","T","y","p","e",":",
                      " ">>) \o mimetype,
                <<>>,
                body >>) \o CRLF

response_ok(body, mimetype) ==
  Join(CRLF, << Str(<<"H","T","T","P","/","1",".","1"," ","2","0","0"," ",
                      "O","K">>),
                Str(<<"C","o","n","t","e","n","t","-","T","y","p","e",":",
                      " ">>) \o mimetype,
                <<>>,
                body >>)

\* response_method_not_allowed with another status line.
response_not_implemented ==
  Join(CRLF, << Str(<<"H","T","T","P","/","1",".","1"," ","5","0","1",
                      " ","N","o","t"," ","I","m","p","l","e","m","e",
                      "n","t","e","d">>),
                Str(<<"C","o","n","t","e","n","t","-","T","y","p","e",
                      ":"," ","t","e","x","t","/","h","t","m","l">>),
                <<>>,
                Str(<<"<","h","t","m","l",">","<","h","1",">","T","h",
                      "e"," ","r","e","q","u","e","s","t"," ","m","e",
                      "t","h","o","d"," ","i","s"," ","n","o","t"," ",
                      "a","l","l","o","w","e","d",".",".",".","<","/",
                      "h","1",">","<","/","h","t","m","l",">">>) >>)

response_method_not_allowed ==
  Join(CRLF, << Str(<<"H","T","T","P","/","1",".","1"," ","4","0","5"," ",
                      "M","e","t","h","o","d"," ","N","o","t"," ",
                      "A","l","l","o","w","e","d">>),
                Str(<<"C","o","n","t","e","n","t","-","T","y","p","e",":",
                      " ","t","e","x","t","/","h","t","m","l">>),
                <<>>,
                Str(<<"<","h","t","m","l",">","<","h","1",">","T","h","e",
                      " ","r","e","q","u","e","s","t"," ","m","e","t","h",
                      "o","d"," ","i","s"," ","n","o","t"," ","a","l","l",
                      "o","w","e","d",".",".",".">>),
                Str(<<"<","/","h","1",">","<","/","h","t","m","l",">">>) >>)

\* response_not_found with the status line of response_ok.
response_not_found_ok ==
  Join(CRLF, << Str(<<"H","T","T","P","/","1",".","1"," ","2","0","0",
                      " ","O","K">>),
                Str(<<"C","o","n","t","e","n","t","-","T","y","p","e",
                      ":"," ","t","e","x","t","/","p","l","a","i","n">>),
                <<>>,
                Str(<<"E","r","r","o","r"," ","e","n","c","o","u","n",
                      "t","e","r","e","d"," ","w","h","i","l","e"," ",
                      "v","i","s","i","t","i","n","g">>) >>)

response_not_found ==
  Join(CRLF, << Str(<<"H","T","T","P","/","1",".","1"," ","4","0","4"," ",
                      "N","o","t"," ","F","o","u","n","d">>),
                Str(<<"C","o","n","t","e","n","t","-","T","y","p","e",":",
                      " ","t","e","x","t","/","p","l","a","i","n">>),
                <<>>,
                Str(<<"E","r","r","o","r"," ","e","n","c","o","u","n","t",
                      "e","r","e","d"," ","w","h","i","l","e"," ","v","i",
                      "s","i","t","i","n","g">>) >>)

(***************************************************************************)
(* Request Parser                                                          *)
(***************************************************************************)

\* str.isspace() for one character: the separators of str.split().
IsSpace(c) ==
  \/ c \in 9..13
  \/ c \in 28..32
  \/ c \in {133, 160, 5760, 8232, 8233, 8239, 8287, 12288}
  \/ c \in 8192..8202

\* The first index >= i of s that holds a separator (Len(s)+1 if none).
RECURSIVE TokenEnd(_, _)
TokenEnd(s, i) ==
  IF i > Len(s) \/ IsSpace(s[i]) THEN i ELSE TokenEnd(s, i + 1)

\* request.split(): the maximal runs of non-whitespace characters.
RECURSIVE SplitFrom(_, _)
SplitFrom(s, i) ==
  IF i > Len(s) THEN <<>>
  ELSE IF IsSpace(s[i]) THEN SplitFrom(s, i + 1)
  ELSE LET j == TokenEnd(s, i)
       IN  <<SubSeq(s, i, j - 1)>> \o SplitFrom(s, j)

Split(s) == SplitFrom(s, 1)

GET == Str(<<"G", "E", "T">>)

\* parse_request with request.split()[0] on line 65.
parse_request_first(req) ==
  IF ~Contains(req, GET) THEN [exc |-> "NotImplementedError"]
  ELSE LET tokens == Split(req)
       IN  IF Len(tokens) < 1 THEN [exc |-> "IndexError"]
           ELSE [exc |-> "none", path |-> tokens[1]]

\* parse_request without the check of the method.
parse_request_unchecked(req) ==
  LET tokens == Split(req)
  IN  IF Len(tokens) < 2 THEN [exc |-> "IndexError"]
      ELSE [exc |-> "none", path |-> tokens[2]]

parse_request(req) ==
  IF ~Contains(req, GET) THEN [exc |-> "NotImplementedError"]
  ELSE LET tokens == Split(req)
       IN  IF Len(tokens) < 2 THEN [exc |-> "IndexError"]
           ELSE [exc |-> "none", path |-> tokens[2]]

(***************************************************************************)
(* The document root                                                       *)
(***************************************************************************)

\* The files below the working directory, keyed by the path relative to
\* it.  A file has a content and may be unreadable (open() fails); a
\* directory has its entries in os.listdir() order and may be unreadable
\* (listdir() fails).
Files ==
  ( Str(<<"w","e","b","r","o","o","t","/">>) :>
      [ kind |-> "dir", readable |-> TRUE,
        entries |-> << Str(<<"a",".","h","t","m","l">>),
                       Str(<<"R","E","A","D","M","E">>),
                       Str(<<"k","e","y",".","t","x","t">>),
                       Str(<<"p","r","i","v">>),
                       Str(<<"e","m","p","t","y">>) >> ] )
  @@
  ( Str(<<"w","e","b","r","o","o","t","/","a",".","h","t","m","l">>) :>
      [ kind |-> "file", readable |-> TRUE,
        content |-> Str(<<"<","h","1",">","a","<","/","h","1",">">>) ] )
  @@
  ( Str(<<"w","e","b","r","o","o","t","/","R","E","A","D","M","E">>) :>
      [ kind |-> "file", readable |-> TRUE,
        content |-> Str(<<"h","i">>) ] )
  @@
  ( Str(<<"w","e","b","r","o","o","t","/","k","e","y",".","t","x","t">>) :>
      [ kind |-> "file", readable |-> FALSE,
        content |-> Str(<<"k","e","y">>) ] )
  @@
  ( Str(<<"w","e","b","r","o","o","t","/","p","r","i","v">>) :>
      [ kind |-> "dir", readable |-> FALSE,
        entries |-> << Str(<<"x",".","t","x","t">>) >> ] )
  @@
  ( Str(<<"w","e","b","r","o","o","t","/","e","m","p","t","y">>) :>
      [ kind |-> "dir", readable |-> TRUE, entries |-> <<>> ] )

\* os.path.exists / os.path.isfile
Exists(p) == p \in DOMAIN Files

IsFile(p) == Exists(p) /\ Files[p].kind = "file"

\* The extension-to-type table of the mimetypes module (the entries the
\* document root can exercise).
types_map ==
  ( Str(<<".","h","t","m","l">>) :> Str(<<"t","e","x","t","/","h","t","m","l">>) )
  @@
  ( Str(<<".","t","x","t">>) :> Str(<<"t","e","x","t","/","p","l","a","i","n">>) )
  @@
  ( Str(<<".","p","n","g">>) :> Str(<<"i","m","a","g","e","/","p","n","g">>) )

\* The largest index of character c in s, 0 if there is none.
LastIndex(s, c) ==
  IF \E i \in 1..Len(s) : s[i] = c
    THEN CHOOSE i \in 1..Len(s) : s[i] = c /\ \A j \in (i + 1)..Len(s) : s[j] # c
    ELSE 0

\* posixpath.splitext(p)[1]: the extension starts at the last dot of the
\* last component, unless only dots precede it there.
SplitExt(p) ==
  LET sep == LastIndex(p, Ord("/"))
      dot == LastIndex(p, Ord("."))
  IN  IF dot > sep /\ \E i \in (sep + 1)..(dot - 1) : p[i] # Ord(".")
        THEN SubSeq(p, dot, Len(p))
        ELSE <<>>

\* str.lower() on ASCII letters.
Lower(s) == [i \in 1..Len(s) |-> IF s[i] \in 65..90 THEN s[i] + 32 ELSE s[i]]

\* The value of mimetypes.guess_type(p)[0] when no type is known.
None == << -1 >>

\* mimetypes.guess_type(p)[0]
GuessType(p) ==
  LET ext == SplitExt(p)
  IN  IF ext \in DOMAIN types_map THEN types_map[ext]
      ELSE IF Lower(ext) \in DOMAIN types_map THEN types_map[Lower(ext)]
      ELSE None

(***************************************************************************)
(* Path Resolver                                                           *)
(***************************************************************************)

\* The document root's name, joined to the working directory (line 96).
Webroot == Str(<<"w","e","b","r","o","o","t">>)

\* response_path with the names of a directory joined by "\n" alone.
response_path_lf(p) ==
  LET webroot_path == Webroot \o p
  IN  IF ~Exists(webroot_path) THEN [exc |-> "NameError"]
      ELSE IF IsFile(webroot_path)
        THEN IF GuessType(webroot_path) = None \/ ~Files[webroot_path].readable
               THEN [exc |-> "NameError"]
               ELSE [ exc |-> "none",
                      content |-> Files[webroot_path].content,
                      mime_type |-> Utf8Encode(GuessType(webroot_path)) ]
      ELSE IF ~Files[webroot_path].readable THEN [exc |-> "OSError"]
      ELSE [ exc |-> "none",
             content |-> Utf8Encode(Join(Str(<<"\n">>), Files[webroot_path].entries)),
             mime_type |-> Str(<<"t","e","x","t","/","p","l","a","i","n">>) ]

\* response_path with the type of a directory listing given to files too.
response_path_plain(p) ==
  LET webroot_path == Webroot \o p
  IN  IF ~Exists(webroot_path) THEN [exc |-> "NameError"]
      ELSE IF IsFile(webroot_path)
        THEN IF GuessType(webroot_path) = None \/ ~Files[webroot_path].readable
               THEN [exc |-> "NameError"]
               ELSE [ exc |-> "none",
                      content |-> Files[webroot_path].content,
                      mime_type |-> Str(<<"t","e","x","t","/","p","l","a","i","n">>) ]
      ELSE IF ~Files[webroot_path].readable THEN [exc |-> "OSError"]
      ELSE [ exc |-> "none",
             content |-> Utf8Encode(Join(CRLF, Files[webroot_path].entries)),
             mime_type |-> Str(<<"t","e","x","t","/","p","l","a","i","n">>) ]

response_path(p) ==
  LET webroot_path == Webroot \o p
  IN  IF ~Exists(webroot_path) THEN [exc |-> "NameError"]
      ELSE IF IsFile(webroot_path)
        THEN IF GuessType(webroot_path) = None \/ ~Files[webroot_path].readable
               THEN [exc |-> "NameError"]
               ELSE [ exc |-> "none",
                      content |-> Files[webroot_path].content,
                      mime_type |-> Utf8Encode(GuessType(webroot_path)) ]
      ELSE IF ~Files[webroot_path].readable THEN [exc |-> "OSError"]
      ELSE [ exc |-> "none",
             content |-> Utf8Encode(Join(CRLF, Files[webroot_path].entries)),
             mime_type |-> Str(<<"t","e","x","t","/","p","l","a","i","n">>) ]

(***************************************************************************)
(* The clients                                                             *)
(***************************************************************************)

\* What a client does on its connection: the bytes it sends, and what it
\* does then: "hold" the connection open, close it ("eof"), or "reset" it
\* (at any time: what it sent and the server has not read is dropped).
Peers ==
  {
    \* an existing file of a known type
    [ data |-> Str(<<"G","E","T"," ","/","a",".","h","t","m","l"," ","H","T","T","P","/","1",".","1","\r","\n","\r","\n">>),
      end |-> "hold" ],
    \* no such file
    [ data |-> Str(<<"G","E","T"," ","/","n","o",".","t","x","t","\r","\n","\r","\n">>),
      end |-> "hold" ],
    \* another method, no such file
    [ data |-> Str(<<"P","O","S","T"," ","/","n","o","\r","\n","\r","\n">>),
      end |-> "hold" ],
    \* another method, an existing file, and bytes after the terminator
    [ data |-> Str(<<"P","O","S","T"," ","/","a",".","h","t","m","l","\r","\n","\r","\n","G","E","T">>),
      end |-> "hold" ],
    \* another method, GET in the path
    [ data |-> Str(<<"P","O","S","T"," ","/","G","E","T","\r","\n","\r","\n">>),
      end |-> "hold" ],
    \* a single token
    [ data |-> Str(<<"G","E","T","\r","\n","\r","\n">>),
      end |-> "hold" ],
    \* the second token is on the second line
    [ data |-> Str(<<"G","E","T","\r","\n","H","o","s","t",":"," ","x","\r","\n","\r","\n">>),
      end |-> "hold" ],
    \* an existing file of no known type
    [ data |-> Str(<<"G","E","T"," ","/","R","E","A","D","M","E","\r","\n","\r","\n">>),
      end |-> "hold" ],
    \* an existing file that cannot be read
    [ data |-> Str(<<"G","E","T"," ","/","k","e","y",".","t","x","t","\r","\n","\r","\n">>),
      end |-> "hold" ],
    \* a directory that cannot be listed
    [ data |-> Str(<<"G","E","T"," ","/","p","r","i","v","\r","\n","\r","\n">>),
      end |-> "hold" ],
    \* the document root itself
    [ data |-> Str(<<"G","E","T"," ","/","\r","\n","\r","\n">>),
      end |-> "hold" ],
    \* an empty directory
    [ data |-> Str(<<"G","E","T"," ","/","e","m","p","t","y","\r","\n","\r","\n">>),
      end |-> "hold" ],
    \* a two-byte UTF-8 character in the path
    [ data |-> Str(<<"G","E","T"," ","/">>) \o <<195, 169>> \o Terminator,
      end |-> "hold" ],
    \* the client closes before the terminator
    [ data |-> Str(<<"G","E","T"," ","/","a",".","h","t","m","l","\r","\n">>),
      end |-> "eof" ],
    \* the client goes silent before the terminator
    [ data |-> Str(<<"G","E","T"," ","/","a",".","h","t","m","l">>),
      end |-> "hold" ],
    \* the client resets the connection
    [ data |-> Str(<<"G","E","T"," ","/","\r","\n","\r","\n">>),
      end |-> "reset" ]
  }

(***************************************************************************)
(* The server                                                              *)
(***************************************************************************)

\* The number of connections the clients open during a run.
MaxConns == 2

\* The number of times the model lets recv() return b'' on one connection.
MaxEmptyReads == 2

\* The buffer size passed to conn.recv (line 138).
MaxRecv == 1024

VARIABLES
  pc,         \* the position of server(): "start", "accept", "recv",
              \* "parse", "resolve", "build", "send", "finally", "stopped"
  sock,       \* the listening socket: "none", "open", "listening", "closed"
  conns,      \* the accepted connections, in the order of accept
  peer,       \* the client of the connection being handled
  rpos,       \* the number of its bytes that recv() has returned
  request,    \* the locals of server(), as far as they are bound
  path,
  content,
  mimetype,
  response,
  exc         \* the exception that ended the try block, or that ended server()

vars == <<pc, sock, conns, peer, rpos, request, path, content, mimetype, response, exc>>

\* The value of a local that is not bound yet.
Unbound == << -2 >>

\* The connection being handled: the last one accepted.
cur == Len(conns)

Min(a, b) == IF a < b THEN a ELSE b

\* Before the first accept() there is no client.
NoPeer == [data |-> <<>>, end |-> "hold"]

\* A connection as accept() returns it, with what happens on it: whether
\* it is open, the payloads of its sendall() calls, the request text the
\* read loop ended with (the one line 144 prints), how its handling
\* ended, the number of recv() calls that returned b'', and the bytes its
\* client sends on it.
NewConn(client) ==
  [ open |-> TRUE, out |-> <<>>, request |-> Unbound, how |-> "handling",
    eofs |-> 0, data |-> client.data ]

\* recv() returned b'' (line 138).
EmptyRead(c) == [c EXCEPT !.eofs = @ + 1]

\* The read loop ends (line 142) with request r.
Received(c, r) == [c EXCEPT !.request = r]

\* SendAll, had the response been sent once more.
SendAllTwice(c, r) ==
  [c EXCEPT !.out = Append(Append(@, r), r), !.how = "sent"]

\* conn.sendall(response)
SendAll(c, r) == [c EXCEPT !.out = Append(@, r), !.how = "sent"]

\* Raised, had `except Exception` answered with the not-found response.
RaisedAndAnswered(c, name) ==
  [c EXCEPT !.how = name, !.out = Append(@, response_not_found)]

\* An exception leaves the handler's try block: `except Exception` prints
\* the traceback and writes nothing; KeyboardInterrupt passes through.
Raised(c, name) == [c EXCEPT !.how = name]

\* Close, had conn.close() followed sendall inside the try block.
CloseIfSent(c) == IF c.how = "sent" THEN [c EXCEPT !.open = FALSE] ELSE c

\* Close, had conn.close() been forgotten.
CloseNever(c) == c

\* conn.close()
Close(c) == [c EXCEPT !.open = FALSE]

Init ==
  /\ pc = "start"
  /\ sock = "none"
  /\ conns = <<>>
  /\ peer = NoPeer
  /\ rpos = 0
  /\ request = Unbound
  /\ path = Unbound
  /\ content = Unbound
  /\ mimetype = Unbound
  /\ response = Unbound
  /\ exc = "none"

\* Lines 122-127: the socket is created, bound and put to listen.
Start ==
  /\ pc = "start"
  /\ pc' = "accept"
  /\ sock' = "listening"
  /\ UNCHANGED <<conns, peer, rpos, request, path, content, mimetype, response, exc>>

\* Lines 126-127 raise (the address is in use): the exception leaves
\* server(), which is outside any try block here.
StartFail ==
  /\ pc = "start"
  /\ pc' = "stopped"
  /\ sock' = "open"
  /\ exc' = "OSError"
  /\ UNCHANGED <<conns, peer, rpos, request, path, content, mimetype, response>>

\* Lines 132-136: accept() returns a connection, the request is reset.
Accept(client) ==
  /\ pc = "accept"
  /\ Len(conns) < MaxConns
  /\ conns' = Append(conns, NewConn(client))
  /\ peer' = client
  /\ rpos' = 0
  /\ request' = <<>>
  /\ pc' = "recv"
  /\ UNCHANGED <<sock, path, content, mimetype, response, exc>>

\* Line 132 raises: `except Exception` of the outer try prints the
\* traceback and server() returns (lines 175-176), which ends its locals.
AcceptFail ==
  /\ pc = "accept"
  /\ pc' = "stopped"
  /\ exc' = "OSError"
  /\ request' = Unbound
  /\ path' = Unbound
  /\ content' = Unbound
  /\ mimetype' = Unbound
  /\ response' = Unbound
  /\ UNCHANGED <<sock, conns, peer, rpos>>

\* The operator interrupts the server while it waits in accept():
\* lines 172-174.
InterruptAccept ==
  /\ pc = "accept"
  /\ pc' = "stopped"
  /\ sock' = "closed"
  /\ exc' = "KeyboardInterrupt"
  /\ request' = Unbound
  /\ path' = Unbound
  /\ content' = Unbound
  /\ mimetype' = Unbound
  /\ response' = Unbound
  /\ UNCHANGED <<conns, peer, rpos>>

\* The largest number of bytes the next recv() can return.
Available ==
  IF pc = "recv" THEN Min(MaxRecv, Len(peer.data) - rpos) ELSE 0

\* Lines 138-142: recv() returns the next k bytes of the client, they are
\* decoded and appended, and the loop ends when the terminator is there.
Recv(k) ==
  /\ pc = "recv"
  /\ k \in 1..Available
  /\ rpos' = rpos + k
  /\ LET text == Utf8Decode(SubSeq(peer.data, rpos + 1, rpos + k))
     IN  IF text = DecodeError
           THEN /\ conns' = [conns EXCEPT ![cur] =
                               Raised(@, "UnicodeDecodeError")]
                /\ exc' = "Exception"
                /\ pc' = "finally"
                /\ UNCHANGED request
           ELSE /\ request' = request \o text
                /\ IF Contains(request', Terminator)
                     THEN /\ conns' = [conns EXCEPT ![cur] =
                                         Received(@, request')]
                          /\ pc' = "parse"
                     ELSE /\ pc' = "recv"
                          /\ UNCHANGED conns
                /\ UNCHANGED exc
  /\ UNCHANGED <<sock, peer, path, content, mimetype, response>>

\* Lines 138-142 after the client closed its side: recv() returns b'',
\* the request is unchanged and the loop goes round again.
RecvEof ==
  /\ pc = "recv"
  /\ peer.end = "eof"
  /\ rpos = Len(peer.data)
  /\ conns[cur].eofs < MaxEmptyReads
  /\ request' = request \o Utf8Decode(<<>>)
  /\ IF Contains(request', Terminator)
       THEN /\ conns' = [conns EXCEPT ![cur] =
                           Received(EmptyRead(@), request')]
            /\ pc' = "parse"
       ELSE /\ conns' = [conns EXCEPT ![cur] = EmptyRead(@)]
            /\ pc' = "recv"
  /\ UNCHANGED <<sock, peer, rpos, path, content, mimetype, response, exc>>

\* Line 138 raises ConnectionResetError.
RecvReset ==
  /\ pc = "recv"
  /\ peer.end = "reset"
  /\ conns' = [conns EXCEPT ![cur] = Raised(@, "ConnectionResetError")]
  /\ exc' = "Exception"
  /\ pc' = "finally"
  /\ UNCHANGED <<sock, peer, rpos, request, path, content, mimetype, response>>

\* Lines 144-148 and 159-161: parse_request returns the path, or raises.
Parse ==
  /\ pc = "parse"
  /\ LET r == parse_request(request)
     IN  CASE r.exc = "none" ->
                /\ path' = r.path
                /\ pc' = "resolve"
                /\ UNCHANGED <<conns, response, exc>>
           [] r.exc = "NotImplementedError" ->
                /\ response' = response_method_not_allowed
                /\ pc' = "send"
                /\ UNCHANGED <<conns, path, exc>>
           [] OTHER ->
                /\ conns' = [conns EXCEPT ![cur] = Raised(@, r.exc)]
                /\ exc' = "Exception"
                /\ pc' = "finally"
                /\ UNCHANGED <<path, response>>
  /\ UNCHANGED <<sock, peer, rpos, request, content, mimetype>>

\* Lines 151 and 162-164: response_path returns the content and the
\* type, or raises.
Resolve ==
  /\ pc = "resolve"
  /\ LET r == response_path(path)
     IN  CASE r.exc = "none" ->
                /\ content' = r.content
                /\ mimetype' = r.mime_type
                /\ pc' = "build"
                /\ UNCHANGED <<conns, response, exc>>
           [] r.exc = "NameError" ->
                /\ response' = response_not_found
                /\ pc' = "send"
                /\ UNCHANGED <<conns, content, mimetype, exc>>
           [] OTHER ->
                /\ conns' = [conns EXCEPT ![cur] = Raised(@, r.exc)]
                /\ exc' = "Exception"
                /\ pc' = "finally"
                /\ UNCHANGED <<content, mimetype, response>>
  /\ UNCHANGED <<sock, peer, rpos, request, path>>

\* Lines 154-157.
Build ==
  /\ pc = "build"
  /\ response' = response_ok(content, mimetype)
  /\ pc' = "send"
  /\ UNCHANGED <<sock, peer, rpos, conns, request, path, content, mimetype, exc>>

\* Line 166.
Send ==
  /\ pc = "send"
  /\ conns' = [conns EXCEPT ![cur] = SendAll(@, response)]
  /\ pc' = "finally"
  /\ UNCHANGED <<sock, peer, rpos, request, path, content, mimetype, response, exc>>

\* Line 166 raises (the client has reset the connection): nothing
\* reaches the client.
SendFail ==
  /\ pc = "send"
  /\ peer.end = "reset"
  /\ conns' = [conns EXCEPT ![cur] = Raised(@, "BrokenPipeError")]
  /\ exc' = "Exception"
  /\ pc' = "finally"
  /\ UNCHANGED <<sock, peer, rpos, request, path, content, mimetype, response>>

\* The operator interrupts the server while it handles a connection
\* (lines 134-166): KeyboardInterrupt is no Exception, so line 167 lets
\* it through; the finally clause closes the connection (line 170), and
\* lines 172-174 close the listening socket and return, which ends the
\* locals of server().
Interrupt ==
  /\ pc \in {"recv", "parse", "resolve", "build", "send"}
  /\ conns' = [conns EXCEPT ![cur] = Close(Raised(@, "KeyboardInterrupt"))]
  /\ exc' = "KeyboardInterrupt"
  /\ sock' = "closed"
  /\ pc' = "stopped"
  /\ peer' = NoPeer
  /\ rpos' = 0
  /\ request' = Unbound
  /\ path' = Unbound
  /\ content' = Unbound
  /\ mimetype' = Unbound
  /\ response' = Unbound

\* Lines 167-170 without the handler of line 167: the Exception leaves the
\* loop for the handler of line 175.
FinallyStops ==
  /\ pc = "finally"
  /\ conns' = [conns EXCEPT ![cur] = Close(@)]
  /\ pc' = IF exc = "Exception" THEN "stopped" ELSE "accept"
  /\ exc' = "none"
  /\ peer' = NoPeer
  /\ rpos' = 0
  /\ UNCHANGED <<sock, request, path, content, mimetype, response>>

\* Lines 167-170, without or with an Exception caught: the connection
\* is closed, which ends the client's part, and the loop goes on.
Finally ==
  /\ pc = "finally"
  /\ conns' = [conns EXCEPT ![cur] = Close(@)]
  /\ pc' = "accept"
  /\ exc' = "none"
  /\ peer' = NoPeer
  /\ rpos' = 0
  /\ UNCHANGED <<sock, request, path, content, mimetype, response>>

Next ==
  \/ Start
  \/ StartFail
  \/ \E client \in Peers : Accept(client)
  \/ AcceptFail
  \/ InterruptAccept
  \/ \E k \in 1..Available : Recv(k)
  \/ RecvEof
  \/ RecvReset
  \/ Parse
  \/ Resolve
  \/ Build
  \/ Send
  \/ SendFail
  \/ Interrupt
  \/ Finally

Spec == Init /\ [][Next]_vars

\* A step of the handler on the connection it has accepted (lines 133-170).
Handle ==
  \/ \E k \in 1..Available : Recv(k)
  \/ RecvEof
  \/ RecvReset
  \/ Parse
  \/ Resolve
  \/ Build
  \/ Send
  \/ SendFail
  \/ Finally

\* The server when no operator interrupt arrives.
NextUninterrupted ==
  \/ Start
  \/ StartFail
  \/ \E client \in Peers : Accept(client)
  \/ AcceptFail
  \/ Handle

\* The server process keeps running: server() is one sequential loop, so
\* a step of the handler that stays possible is taken. Nothing is assumed
\* of the clients (a new connection may never come) nor of failures.
FairSpec == Init /\ [][NextUninterrupted]_vars /\ WF_vars(Handle)

(***************************************************************************)
(* Properties                                                              *)
(***************************************************************************)

\* The responses as the protocol fixes them, byte for byte.
OkHead ==
  Str(<<"H","T","T","P","/","1",".","1"," ","2","0","0"," ","O","K",
        "\r","\n","C","o","n","t","e","n","t","-","T","y","p","e",":",
        " ">>)

NotFound404 ==
  Str(<<"H","T","T","P","/","1",".","1"," ","4","0","4"," ","N","o","t",
        " ","F","o","u","n","d","\r","\n","C","o","n","t","e","n","t",
        "-","T","y","p","e",":"," ","t","e","x","t","/","p","l","a","i",
        "n","\r","\n","\r","\n","E","r","r","o","r"," ","e","n","c","o",
        "u","n","t","e","r","e","d"," ","w","h","i","l","e"," ","v","i",
        "s","i","t","i","n","g">>)

NotAllowed405 ==
  Str(<<"H","T","T","P","/","1",".","1"," ","4","0","5"," ","M","e","t",
        "h","o","d"," ","N","o","t"," ","A","l","l","o","w","e","d",
        "\r","\n","C","o","n","t","e","n","t","-","T","y","p","e",":",
        " ","t","e","x","t","/","h","t","m","l","\r","\n","\r","\n","<",
        "h","t","m","l",">","<","h","1",">","T","h","e"," ","r","e","q",
        "u","e","s","t"," ","m","e","t","h","o","d"," ","i","s"," ","n",
        "o","t"," ","a","l","l","o","w","e","d",".",".",".","\r","\n",
        "<","/","h","1",">","<","/","h","t","m","l",">">>)

StatusLine404 ==
  Str(<<"H","T","T","P","/","1",".","1"," ","4","0","4"," ","N","o","t",
        " ","F","o","u","n","d">>)

\* The handling of connection c ended, and neither an operator interrupt
\* nor a failing socket cut it short.
Handled(c) ==
  /\ ~c.open
  /\ c.how \notin {"KeyboardInterrupt", "ConnectionResetError",
                   "BrokenPipeError"}

\* The read loop of connection c ended with a complete request.
Complete(c) == c.request # Unbound

\* The request of connection c is one the handler answers: its parsing
\* ends in a path or in the unsupported method, and so does resolving.
Answerable(c) ==
  /\ Complete(c)
  /\ \/ ~Contains(c.request, GET)
     \/ LET tokens == Split(c.request)
            p == Webroot \o tokens[2]
        IN  /\ Len(tokens) >= 2
            /\ Exists(p) => Files[p].kind = "file" \/ Files[p].readable

\* C1 as stated: every connection whose handling ended, on the success,
\* 404, 405 or unexpected-failure path, has exactly one response written
\* to it.
C1_ExactlyOneResponse ==
  \A i \in 1..Len(conns) : Handled(conns[i]) => Len(conns[i].out) = 1

\* C1, amended: no connection ever receives two responses; a connection
\* whose handling ended on the 200, 404 or 405 path has exactly one
\* response and is closed after it, and one whose handling ended in an
\* unexpected failure, or that an operator interrupt cut short, is closed
\* with none.
C1_AtMostOneResponse ==
  \A i \in 1..Len(conns) :
    LET c == conns[i]
    IN  /\ Len(c.out) <= 1
        /\ Handled(c) => Len(c.out) = (IF Answerable(c) THEN 1 ELSE 0)
        /\ ~c.open /\ ~Handled(c) => Len(c.out) = 0
        /\ Len(c.out) = 1 /\ (i < cur \/ pc \in {"accept", "stopped"})
             => ~c.open

C1_Witness ==
  \E i, j \in 1..Len(conns) :
    /\ Handled(conns[i]) /\ Len(conns[i].out) = 1
    /\ Handled(conns[j]) /\ Len(conns[j].out) = 0

\* C2: a complete request text without the substring GET is answered with
\* the 405 response and nothing else, whatever its path is: once its
\* handling has ended the connection holds exactly the 405 response.
C2_NoGetIs405 ==
  \A i \in 1..Len(conns) :
    LET c == conns[i]
    IN  Complete(c) /\ ~Contains(c.request, GET)
          => /\ c.out \in {<<>>, <<NotAllowed405>>}
             /\ Handled(c) => c.out = <<NotAllowed405>>

\* The second whitespace-separated token of request r, the path it asks
\* for.
Target(r) == Split(r)[2]

HasTarget(r) == Len(Split(r)) >= 2

C2_Witness ==
  \E i, j \in 1..Len(conns) :
    /\ Handled(conns[i]) /\ Handled(conns[j])
    /\ ~Contains(conns[i].request, GET) /\ ~Contains(conns[j].request, GET)
    /\ HasTarget(conns[i].request) /\ HasTarget(conns[j].request)
    /\ Exists(Webroot \o Target(conns[i].request))
    /\ ~Exists(Webroot \o Target(conns[j].request))
    /\ conns[i].out = <<NotAllowed405>>
    /\ conns[j].out = <<NotAllowed405>>

\* The path that the second token of the request of c names is missing
\* under the document root.
TargetMissing(c) ==
  /\ Complete(c)
  /\ LET tokens == Split(c.request)
     IN  Len(tokens) >= 2 /\ ~Exists(Webroot \o tokens[2])

Is404(c) == Len(c.out) = 1 /\ StartsWith(c.out[1], StatusLine404)

\* C3 as stated: every complete request whose second token names a path
\* missing under the document root is answered with a 404 response.
C3_MissingIs404 ==
  \A i \in 1..Len(conns) :
    Handled(conns[i]) /\ TargetMissing(conns[i]) => Is404(conns[i])

\* C3, amended: every complete request that contains GET and whose second
\* token names a path missing under the document root is answered with a
\* 404 response.
C3_GetMissingIs404 ==
  \A i \in 1..Len(conns) :
    LET c == conns[i]
    IN  TargetMissing(c) /\ Contains(c.request, GET)
          => /\ c.out = <<>> \/ Is404(c)
             /\ Handled(c) => Is404(c)

C3_Witness ==
  \E i \in 1..Len(conns) :
    /\ Handled(conns[i])
    /\ TargetMissing(conns[i])
    /\ Contains(conns[i].request, GET)
    /\ conns[i].out = <<NotFound404>>

\* The method of a request: its first token.
Method(r) == LET tokens == Split(r) IN IF tokens = <<>> THEN <<>> ELSE tokens[1]

\* C4 as stated: a complete request whose method is not GET is answered
\* with the 405 response and is never resolved against the document root.
C4_OtherMethodIs405 ==
  \A i \in 1..Len(conns) :
    LET c == conns[i]
    IN  Complete(c) /\ Method(c.request) # GET
          => /\ i = cur => pc \notin {"resolve", "build"}
             /\ c.out \in {<<>>, <<NotAllowed405>>}
             /\ Handled(c) => c.out = <<NotAllowed405>>

\* The second token of the request of c names regular file f.
TargetIsFile(c) ==
  /\ Complete(c)
  /\ LET tokens == Split(c.request)
     IN  Len(tokens) >= 2 /\ IsFile(Webroot \o tokens[2])

\* The 200 response that carries file f under the type of its extension.
Ok200(f) ==
  OkHead \o Utf8Encode(GuessType(f)) \o CRLF \o CRLF \o Files[f].content

\* C5 as stated: every complete request that contains GET and whose
\* request-target names an existing regular file is answered with a 200
\* response (of the type of the extension, with the content of the file).
C5_FileIs200 ==
  \A i \in 1..Len(conns) :
    LET c == conns[i]
    IN  Handled(c) /\ TargetIsFile(c) /\ Contains(c.request, GET)
          => /\ Len(c.out) = 1
             /\ StartsWith(c.out[1], OkHead)

\* C5, amended: every complete request that contains GET and whose
\* request-target names an existing regular file that can be read and
\* whose extension has a known type is answered with the 200 response of
\* that type whose body is the full content of the file.
C5_ReadableTypedFileIs200 ==
  \A i \in 1..Len(conns) :
    LET c == conns[i]
        f == Webroot \o Target(c.request)
    IN  /\ Complete(c)
        /\ HasTarget(c.request)
        /\ IsFile(f)
        /\ Contains(c.request, GET)
        /\ Files[f].readable
        /\ GuessType(f) # None
        => /\ c.out \in {<<>>, <<Ok200(f)>>}
           /\ Handled(c) => c.out = <<Ok200(f)>>

C5_Witness ==
  \E i \in 1..Len(conns) :
    /\ Handled(conns[i])
    /\ TargetIsFile(conns[i])
    /\ Contains(conns[i].request, GET)
    /\ conns[i].out = <<Ok200(Webroot \o Target(conns[i].request))>>

\* C6 as stated: a complete request that contains GET and whose path is
\* missing, cannot be read or has no type is answered with the fixed 404
\* response, never with a 200 and never with nothing.
C6_UnservableIs404 ==
  \A i \in 1..Len(conns) :
    LET c == conns[i]
        p == Webroot \o Target(c.request)
    IN  /\ Complete(c)
        /\ Contains(c.request, GET)
        /\ HasTarget(c.request)
        /\ \/ ~Exists(p)
           \/ ~Files[p].readable
           \/ IsFile(p) /\ GuessType(p) = None
        => /\ c.out \in {<<>>, <<NotFound404>>}
           /\ Handled(c) => c.out = <<NotFound404>>

\* C7: whatever is written to a connection is one 200 response, the fixed
\* 404 response or the fixed 405 response; a connection gets one of these
\* or no byte at all.
C7_FourShapes ==
  \A i \in 1..Len(conns) :
    LET out == conns[i].out
    IN  \/ out = <<>>
        \/ /\ Len(out) = 1
           /\ \/ StartsWith(out[1], OkHead)
              \/ out[1] = NotFound404
              \/ out[1] = NotAllowed405

C7_Witness ==
  \E i, j \in 1..Len(conns) :
    /\ ~conns[i].open /\ Len(conns[i].out) = 1
    /\ StartsWith(conns[i].out[1], OkHead)
    /\ ~conns[j].open /\ conns[j].out = <<NotAllowed405>>

\* The exceptions that `except Exception` (line 167) catches.
Unexpected ==
  {"UnicodeDecodeError", "ConnectionResetError", "IndexError", "OSError",
   "BrokenPipeError"}

\* C8: a connection whose handling ended in an unexpected failure has no
\* byte written to it, and it is closed before the server goes on.
C8_FailureWritesNothing ==
  \A i \in 1..Len(conns) :
    LET c == conns[i]
    IN  c.how \in Unexpected
          => /\ c.out = <<>>
             /\ c.open => i = cur /\ pc = "finally"

C8_Witness ==
  \E i, j \in 1..Len(conns) :
    /\ conns[i].how = "IndexError"
    /\ conns[j].how = "UnicodeDecodeError"
    /\ ~conns[i].open /\ ~conns[j].open
    /\ conns[i].out = <<>> /\ conns[j].out = <<>>

\* C9: when the server waits in accept() or has stopped, every connection
\* it accepted is closed, also after a failure or an operator interrupt
\* while the connection was handled.
C9_ClosedBeforeNext ==
  pc \in {"accept", "stopped"} => \A i \in 1..Len(conns) : ~conns[i].open

C9_Witness ==
  /\ pc = "stopped"
  /\ Len(conns) = 2
  /\ conns[1].how = "sent"
  /\ conns[2].how = "KeyboardInterrupt"
  /\ ~conns[1].open /\ ~conns[2].open

\* C10: at most one accepted connection is open, and it is the last one
\* accepted: every connection accepted before it is closed.
C10_OneAtATime ==
  /\ Cardinality({i \in 1..Len(conns) : conns[i].open}) <= 1
  /\ \A i \in 1..Len(conns) : i < cur => ~conns[i].open

C10_Witness ==
  /\ Len(conns) = 2
  /\ ~conns[1].open
  /\ conns[2].open
  /\ pc = "send"

\* The states of the listener loop: Starting, Accepting (the socket
\* listens and the server waits in accept()), Handling and Stopped.
Starting == pc = "start"

Accepting == pc = "accept"

Handling == pc \in {"recv", "parse", "resolve", "build", "send", "finally"}

Stopped == pc = "stopped"

C12_SocketClosedWhenStopped == Stopped => sock = "closed"

\* The positions of text s where a whitespace-delimited token starts.
TokenStarts(s) ==
  {k \in 1..Len(s) : ~IsSpace(s[k]) /\ (k = 1 \/ IsSpace(s[k - 1]))}

\* The token of text s that starts at position k.
TokenAt(s, k) ==
  LET e == CHOOSE e \in k..Len(s) :
             /\ \A m \in k..e : ~IsSpace(s[m])
             /\ e = Len(s) \/ IsSpace(s[e + 1])
  IN  SubSeq(s, k, e)

\* The second whitespace-delimited token of text s, None without one.
SecondToken(s) ==
  LET starts == TokenStarts(s)
  IN  IF Cardinality(starts) < 2 THEN None
      ELSE TokenAt(s, CHOOSE k \in starts :
                        Cardinality({m \in starts : m < k}) = 1)

\* The first line of text s: what precedes its first line break.
FirstLine(s) ==
  LET breaks == {k \in 1..Len(s) : s[k] \in {Ord("\r"), Ord("\n")}}
  IN  IF breaks = {} THEN s
      ELSE SubSeq(s, 1, (CHOOSE k \in breaks : \A m \in breaks : k <= m) - 1)

\* C13 as stated: the path that parsing returns is the second
\* whitespace-delimited token of the first line of the request.
C13_SecondTokenOfFirstLine ==
  pc = "resolve" => path = SecondToken(FirstLine(request))

\* C13: the path that parsing returns is the second whitespace-delimited
\* token of the whole request text, which is the second token of the
\* first line whenever the first line has two tokens.
C13_SecondTokenOfText ==
  pc = "resolve"
    => /\ path = SecondToken(request)
       /\ SecondToken(FirstLine(request)) # None
            => path = SecondToken(FirstLine(request))

C13_Witness ==
  /\ pc = "resolve"
  /\ Cardinality(TokenStarts(FirstLine(request))) = 3
  /\ path = Str(<<"/", "a", ".", "h", "t", "m", "l">>)

\* The 200 response for the document <html></html> of type text/html.
Ok200Example ==
  Str(<<"H", "T", "T", "P", "/", "1", ".", "1", " ", "2", "0", "0",
        " ", "O", "K", "\r", "\n", "C", "o", "n", "t", "e", "n", "t",
        "-", "T", "y", "p", "e", ":", " ", "t", "e", "x", "t", "/",
        "h", "t", "m", "l", "\r", "\n", "\r", "\n", "<", "h", "t",
        "m", "l", ">", "<", "/", "h", "t", "m", "l", ">">>)

\* What the builder makes of the document <html></html> and that type.
Ok200Built ==
  response_ok(Str(<<"<","h","t","m","l",">","<","/","h","t","m","l",">">>),
              Str(<<"t","e","x","t","/","h","t","m","l">>))

\* The 200 response for the content of webroot/a.html.
Ok200AHtml ==
  Str(<<"H", "T", "T", "P", "/", "1", ".", "1", " ", "2", "0", "0",
        " ", "O", "K", "\r", "\n", "C", "o", "n", "t", "e", "n", "t",
        "-", "T", "y", "p", "e", ":", " ", "t", "e", "x", "t", "/",
        "h", "t", "m", "l", "\r", "\n", "\r", "\n", "<", "h", "1",
        ">", "a", "<", "/", "h", "1", ">">>)

RequestAHtml ==
  Str(<<"G", "E", "T", " ", "/", "a", ".", "h", "t", "m", "l", " ",
        "H", "T", "T", "P", "/", "1", ".", "1", "\r", "\n", "\r",
        "\n">>)

ListingHead ==
  Str(<<"H", "T", "T", "P", "/", "1", ".", "1", " ", "2", "0", "0",
        " ", "O", "K", "\r", "\n", "C", "o", "n", "t", "e", "n", "t",
        "-", "T", "y", "p", "e", ":", " ", "t", "e", "x", "t", "/",
        "p", "l", "a", "i", "n", "\r", "\n", "\r", "\n">>)

\* The position in a listing of names e where name i starts.
RECURSIVE NameOffset(_, _)
NameOffset(e, i) ==
  IF i = 1 THEN 1 ELSE NameOffset(e, i - 1) + Len(e[i - 1]) + Len(CRLF)

\* body holds the names e in their order, a line break between each two,
\* and nothing else.
IsListing(body, e) ==
  /\ Len(body) = IF e = <<>> THEN 0
                 ELSE NameOffset(e, Len(e)) + Len(e[Len(e)]) - 1
  /\ \A i \in 1..Len(e) :
       LET from == NameOffset(e, i)
           to == from + Len(e[i]) - 1
       IN  /\ SubSeq(body, from, to) = Utf8Encode(e[i])
           /\ i < Len(e) => SubSeq(body, to + 1, to + 2) = Str(<<"\r", "\n">>)

\* Connection c asked with GET for a directory that can be listed, and
\* its handling ended.
ListedDir(c) ==
  /\ Handled(c)
  /\ Complete(c)
  /\ Contains(c.request, GET)
  /\ LET tokens == Split(c.request)
         p == Webroot \o tokens[2]
     IN  /\ Len(tokens) >= 2
         /\ Exists(p) /\ Files[p].kind = "dir" /\ Files[p].readable

C16_ReadLoopEndsOnClose ==
  \A i \in 1..Len(conns) :
    conns[i].eofs > 0 => ~(i = cur /\ pc = "recv")

\* The bytes that end the header block of a request.
HeaderEnd == Str(<<"\r", "\n", "\r", "\n">>)

\* Connection n is the one being handled, and what its client sends holds
\* the header terminator.
AcceptedWithTerminator(n) ==
  IF Len(conns) = n
    THEN conns[n].open /\ Contains(conns[n].data, HeaderEnd)
    ELSE FALSE

\* Connection n is closed and the server waits in accept().
ClosedAndAccepting(n) ==
  IF Len(conns) >= n THEN ~conns[n].open /\ Accepting ELSE FALSE

C18_PathUnderWebroot ==
  pc = "resolve"
    => /\ StartsWith(path, Str(<<"/">>))
       /\ StartsWith(Webroot \o path,
                     Str(<<"w", "e", "b", "r", "o", "o", "t", "/">>))

\* C19: on each connection the steps come in the order read, parse,
\* resolve, build, write, close. Parsing starts only when the text read
\* holds the terminator; the resolver is consulted only after parsing a
\* request with GET in it, and the 405 response is built straight from
\* parsing; a response is written only to the connection in hand, open
\* and with the terminator read, and is the one response built; bytes are
\* read only in the read loop of an open connection; and a closed
\* connection never changes again.
C19_StepsInOrder ==
  [][ /\ pc' = "parse" => pc = "recv" /\ Contains(request', HeaderEnd)
      /\ pc' = "resolve" => pc = "parse" /\ Contains(request, GET)
      /\ pc' = "build" => pc = "resolve"
      /\ pc' = "send"
           => /\ pc \in {"parse", "resolve", "build"}
              /\ response' = NotAllowed405 <=> pc = "parse"
      /\ pc' = "finally" /\ exc' = "none" => pc = "send"
      /\ rpos' > rpos => pc = "recv" /\ conns[cur].open
      /\ \A i \in 1..Len(conns) :
           /\ conns'[i].out # conns[i].out
                => /\ i = cur /\ pc = "send" /\ conns[i].open
                   /\ Contains(request, HeaderEnd)
                   /\ conns[i].out = <<>> /\ conns'[i].out = <<response>>
           /\ conns[i].open /\ ~conns'[i].open
                => i = cur /\ (pc = "finally" \/ Stopped')
           /\ ~conns[i].open => conns'[i] = conns[i]
    ]_vars

C19_Witness ==
  /\ Len(conns) = 2
  /\ pc = "accept"
  /\ conns[1].out = <<NotAllowed405>> /\ ~conns[1].open
  /\ conns[2].out = <<Ok200AHtml>> /\ ~conns[2].open

\* C20 as stated: the outcome of a connection depends on the bytes its
\* client sends alone, not on how recv() cuts them into chunks: any two
\* connections whose clients send the same bytes and whose handling ended
\* got the same response, or both none.
C20_ChunkingIndependent ==
  \A i, j \in 1..Len(conns) :
    /\ Handled(conns[i]) /\ Handled(conns[j])
    /\ conns[i].data = conns[j].data
    => conns[i].out = conns[j].out

====
